---- MODULE Spec2Model ----
(***************************************************************************)
(* A model of the Kademlia node facade of bulletinboard-dht                *)
(* (src/src/kademlia.rs): routing-table maintenance by the message         *)
(* handlers and the eviction probe, the two value stores, put / remove /   *)
(* republish, the iterative lookup find() and bootstrap.                   *)
(*                                                                         *)
(* kademlia.rs calls into kbuckets.rs, node.rs, storage.rs, server.rs and  *)
(* closest_nodes_iter.rs.  Those modules are modelled from their           *)
(* description in spec.md (sections 3, 4.A, 4.C, 4.E, 4.F, 4.G).           *)
(***************************************************************************)
EXTENDS Integers, Sequences, FiniteSets, TLC

(***************************************************************************)
(* Bounds.  The identifier width, the bucket capacity and the fan-out      *)
(* width are scaled down from 160, 20 and 3.                               *)
(***************************************************************************)
ID_BITS == 3
K_PARAM == 2
ALPHA_PARAM == 2
MaxClock == 1
MAX_VALUE_LEN == 2048

IDs == 0 .. (2 ^ ID_BITS - 1)
NoId == -1
Addrs == {"a1", "a2"}
LocalAddr == "self"
Keys == {1, 6}
Cookies == {"c1"}
Handlers == {"h1", "h2"}
Republishers == {"r1", "r2"}
\* the threads that run find: the caller of bootstrap / put / get, a second
\* application thread calling get on a clone of the node, the republishers
Finders == {"main", "app"} \cup Republishers

\* a value is a byte string; only its content tag and its length are kept
Values ==
  { [tag |-> "a", len |-> 1],
    [tag |-> "b", len |-> MAX_VALUE_LEN],
    [tag |-> "c", len |-> MAX_VALUE_LEN + 1] }

VARIABLES
  own_id,           \* Kademlia.own_id (shared with KBuckets)
  kbuckets,         \* KBuckets: bucket index -> sequence of Node
  internal_values,  \* InternalStorage: set of <<key, value>>
  external_values,  \* ExternalStorage: set of <<key, value>> (unexpired)
  now,              \* the clock read by update_last_seen
  handler,          \* one record per handle_message task
  lk,               \* one record per thread that can run find()
  main,             \* the thread calling bootstrap / put / get
  rep,              \* one record per republisher thread
  ret,              \* what the latest call of the public API returned
  out               \* datagrams sent by the latest step

vars ==
  <<own_id, kbuckets, internal_values, external_values, now, handler, lk, main,
    rep, ret, out>>

----------------------------------------------------------------------------
(* Identifiers and distance (spec.md 3, 4.A) *)

RECURSIVE Xor(_, _)
Xor(a, b) ==
  IF a = 0 /\ b = 0 THEN 0
  ELSE (((a % 2) + (b % 2)) % 2) + 2 * Xor(a \div 2, b \div 2)

RECURSIVE BitLen(_)
BitLen(d) == IF d = 0 THEN 0 ELSE 1 + BitLen(d \div 2)

LeadingZeroBits(d) == ID_BITS - BitLen(d)

\* -1 for the local ID itself, which has no bucket
BucketIndex(own, id) == ID_BITS - 1 - LeadingZeroBits(Xor(own, id))

Node(id, addr, seen) == [node_id |-> id, addr |-> addr, last_seen |-> seen]

\* two peers are equal iff their IDs are equal
NodeEq(a, b) == a.node_id = b.node_id

----------------------------------------------------------------------------
(* Sequences *)

RECURSIVE SeqFilterOut(_, _)
\* s without the elements whose node ID is id
SeqFilterOut(s, id) ==
  IF s = <<>> THEN <<>>
  ELSE IF Head(s).node_id = id THEN SeqFilterOut(Tail(s), id)
       ELSE <<Head(s)>> \o SeqFilterOut(Tail(s), id)

RemoveAt(s, i) == SubSeq(s, 1, i - 1) \o SubSeq(s, i + 1, Len(s))

Take(s, n) == SubSeq(s, 1, IF Len(s) < n THEN Len(s) ELSE n)

\* the first position of a node equal to n in s, 0 when there is none
Position(s, n) ==
  IF \E i \in 1 .. Len(s) : NodeEq(s[i], n)
  THEN CHOOSE i \in 1 .. Len(s) :
         NodeEq(s[i], n) /\ \A j \in 1 .. (i - 1) : ~NodeEq(s[j], n)
  ELSE 0

RECURSIVE InsertSeen(_, _)
\* x inserted into s (ascending last_seen) after the elements not newer than x
InsertSeen(s, x) ==
  IF s = <<>> THEN <<x>>
  ELSE IF Head(s).last_seen <= x.last_seen
       THEN <<Head(s)>> \o InsertSeen(Tail(s), x)
       ELSE <<x>> \o s

RECURSIVE SortBySeen(_)
\* the stable sort of s by ascending last_seen
SortBySeen(s) ==
  IF s = <<>> THEN <<>>
  ELSE InsertSeen(SortBySeen(SubSeq(s, 1, Len(s) - 1)), s[Len(s)])

RECURSIVE InsertDist(_, _, _)
InsertDist(key, s, x) ==
  IF s = <<>> THEN <<x>>
  ELSE IF Xor(key, Head(s).node_id) <= Xor(key, x.node_id)
       THEN <<Head(s)>> \o InsertDist(key, Tail(s), x)
       ELSE <<x>> \o s

RECURSIVE SortByDist(_, _)
\* the stable sort of s by ascending XOR distance to key
SortByDist(key, s) ==
  IF s = <<>> THEN <<>>
  ELSE InsertDist(key, SortByDist(key, SubSeq(s, 1, Len(s) - 1)), s[Len(s)])

----------------------------------------------------------------------------
(* The routing table (spec.md 4.C) *)

BucketIdxs == 0 .. (ID_BITS - 1)

EmptyBuckets == [i \in BucketIdxs |-> <<>>]

RECURSIVE FlattenFrom(_, _)
FlattenFrom(kb, i) ==
  IF i >= ID_BITS THEN <<>> ELSE kb[i] \o FlattenFrom(kb, i + 1)

\* KBuckets::get_nodes
AllNodes(kb) == FlattenFrom(kb, 0)

\* KBuckets::get_closest_nodes
GetClosestNodes(kb, key, n) == Take(SortByDist(key, AllNodes(kb)), n)

\* KBuckets::get_bucket / get_mut_bucket: the index of the bucket that would
\* hold id, -1 when there is none
GetBucket(own, id) == BucketIndex(own, id)

\* KBuckets::add, the new table; AddFull tells whether add returns Err(node)
AddFull(kb, own, node) ==
  LET i == BucketIndex(own, node.node_id) IN
    /\ i >= 0
    /\ Position(kb[i], node) = 0
    /\ Len(kb[i]) >= K_PARAM

KbAdd(kb, own, node) ==
  LET i == BucketIndex(own, node.node_id) IN
    IF i < 0 THEN kb
    ELSE IF Position(kb[i], node) # 0
         THEN [kb EXCEPT ![i] = Append(RemoveAt(kb[i], Position(kb[i], node)), node)]
         ELSE IF Len(kb[i]) < K_PARAM
              THEN [kb EXCEPT ![i] = Append(kb[i], node)]
              ELSE kb

\* KBuckets::construct_node fails when the ID is the local ID
ConstructNodeFails(own, id) == id = own

----------------------------------------------------------------------------
(* The value stores (spec.md 4.G) *)

\* the values in the order a store lists them
ValueOrder ==
  << [tag |-> "a", len |-> 1],
     [tag |-> "b", len |-> MAX_VALUE_LEN],
     [tag |-> "c", len |-> MAX_VALUE_LEN + 1] >>

RECURSIVE SeqRestrict(_, _)
\* the elements of s that are in S, in the order of s
SeqRestrict(s, S) ==
  IF s = <<>> THEN <<>>
  ELSE IF Head(s) \in S THEN <<Head(s)>> \o SeqRestrict(Tail(s), S)
       ELSE SeqRestrict(Tail(s), S)

\* InternalStorage::get / ExternalStorage::get
StoreGet(st, key) == SeqRestrict(ValueOrder, {kv[2] : kv \in {x \in st : x[1] = key}})

\* InternalStorage::put / ExternalStorage::put
StorePut(st, key, value) == st \cup {<<key, value>>}

\* InternalStorage::contains
StoreContains(st, key, value) == <<key, value>> \in st

\* InternalStorage::remove
StoreRemove(st, key, value) == st \ {<<key, value>>}

\* InternalStorage::remove_key
StoreRemoveKey(st, key) == {kv \in st : kv[1] # key}

----------------------------------------------------------------------------
(* Messages (spec.md 4.D) *)

NoValue == [tag |-> "none", len |-> 0]
NoNode == [node_id |-> NoId, addr |-> "none", last_seen |-> 0]

Msg(type, sender, cookie, key, value) ==
  [type |-> type, sender_id |-> sender, cookie |-> cookie, key |-> key, value |-> value]

TimeoutMsg == Msg("Timeout", NoId, "none", NoId, NoValue)

\* the inbound messages with the sender IDs S, the keys Ks and the values Vs
InMsgs(S, Ks, Vs) ==
  {Msg(t, s, c, NoId, NoValue) :
     t \in {"Ping", "Pong", "FoundNode", "FoundValue"}, s \in S, c \in Cookies}
  \cup {Msg(t, s, c, k, NoValue) :
     t \in {"FindNode", "FindValue"}, s \in S, c \in Cookies, k \in Ks}
  \cup {Msg("Store", sk[1], c, sk[2], v) : sk \in S \X Ks, c \in Cookies, v \in Vs}
  \cup {TimeoutMsg}

\* a datagram sent by the node
Dgram(dst, type, sender, cookie, key, value, nodes, values) ==
  [dst |-> dst, type |-> type, sender_id |-> sender, cookie |-> cookie,
   key |-> key, value |-> value, nodes |-> nodes, values |-> values]

----------------------------------------------------------------------------
(* handle_message tasks: kademlia.rs 63-71, 240-330 *)

\* evicted is the peer the eviction probe of this task replaced, if any;
\* result is the io::Result the task's handle_message returned
IdleHandler ==
  [pc |-> "idle", src |-> "none", msg |-> TimeoutMsg, own |-> NoId,
   repl |-> NoNode, probe |-> <<>>, evicted |-> NoNode, result |-> "none"]

\* a task whose handle_message has returned res
Returned(res) == [IdleHandler EXCEPT !.result = res]

\* time passes
ClockTick ==
  /\ now < MaxClock
  /\ now' = now + 1
  /\ out' = <<>>
  /\ UNCHANGED <<own_id, kbuckets, internal_values, external_values, handler, lk,
                 main, rep, ret>>

\* the receive loop spawns a handler, which first reads the local ID (line 270)
Receive(h, src, m) ==
  /\ handler[h].pc = "idle"
  /\ handler' = [handler EXCEPT ![h] =
       [IdleHandler EXCEPT !.pc = "update", !.src = src, !.msg = m, !.own = own_id]]
  /\ out' = <<>>
  /\ UNCHANGED <<own_id, kbuckets, internal_values, external_values, now, lk, main,
                 rep, ret>>

\* (mutant) only a missing sender ID is rejected
SenderRejected_NoIdOnly(hr) ==
  /\ hr.msg.type # "Timeout"
  /\ hr.msg.sender_id = NoId

\* update_buckets returns Err: handle_message returns before the dispatch
SenderRejected(hr) ==
  /\ hr.msg.type # "Timeout"
  /\ \/ hr.msg.sender_id = NoId
     \/ hr.msg.sender_id = hr.own
     \/ ConstructNodeFails(own_id, hr.msg.sender_id)

\* update_buckets up to kbuckets.add (lines 243-260)
HUpdateBuckets(h) ==
  LET hr == handler[h]
      sender == Node(hr.msg.sender_id, hr.src, now)
  IN
  /\ hr.pc = "update"
  /\ out' = <<>>
  /\ UNCHANGED <<own_id, internal_values, external_values, now, lk, main, rep, ret>>
  /\ IF hr.msg.type = "Timeout"
     THEN /\ handler' = [handler EXCEPT ![h].pc = "dispatch"]
          /\ UNCHANGED kbuckets
     ELSE IF SenderRejected(hr)
     THEN /\ handler' = [handler EXCEPT ![h] = Returned("err")]
          /\ UNCHANGED kbuckets
     ELSE IF AddFull(kbuckets, own_id, sender)
     THEN /\ handler' = [handler EXCEPT ![h].pc = "snapshot", ![h].repl = sender]
          /\ UNCHANGED kbuckets
     ELSE /\ handler' = [handler EXCEPT ![h].pc = "dispatch"]
          /\ kbuckets' = KbAdd(kbuckets, own_id, sender)

PingTo(n) == Dgram(n.addr, "Ping", own_id, "probe", NoId, NoValue, <<>>, <<>>)

\* ping_or_replace_with: the sorted snapshot of the bucket and the fan-out of
\* Pings (lines 198-215)
HProbeStart(h) ==
  LET hr == handler[h]
      i == GetBucket(own_id, hr.repl.node_id)
      node_list == IF i < 0 THEN <<>> ELSE SortBySeen(kbuckets[i])
  IN
  /\ hr.pc = "snapshot"
  /\ handler' = [handler EXCEPT
       ![h].pc = IF node_list = <<>> THEN "dispatch" ELSE "probe",
       ![h].probe = node_list,
       ![h].repl = IF node_list = <<>> THEN NoNode ELSE hr.repl]
  /\ out' = [j \in 1 .. Len(Take(node_list, ALPHA_PARAM)) |-> PingTo(node_list[j])]
  /\ UNCHANGED <<own_id, kbuckets, internal_values, external_values, now, lk, main, rep, ret>>

\* (mutant) the candidate pushed without removing the probed node
ReplaceIn_NoRemove(bucket, node, replacement) ==
  IF Position(bucket, node) = 0 THEN bucket ELSE Append(bucket, replacement)

\* (mutant) the candidate put at the head of the bucket
ReplaceIn_AtHead(bucket, node, replacement) ==
  IF Position(bucket, node) = 0 THEN bucket
  ELSE <<replacement>> \o RemoveAt(bucket, Position(bucket, node))

\* the bucket after the match arm of lines 221-234 for a probed node that did
\* not answer with a Pong: node replaced by replacement when it is still there
ReplaceIn(bucket, node, replacement) ==
  IF Position(bucket, node) = 0 THEN bucket
  ELSE Append(RemoveAt(bucket, Position(bucket, node)), replacement)

\* one (node, resp) pair of the probe's reply channel (lines 217-237); the
\* nodes in flight are the first ALPHA_PARAM unresolved ones
HProbeReply(h, j, pong) ==
  LET hr == handler[h]
      node == hr.probe[j]
      rest == RemoveAt(hr.probe, j)
      i == GetBucket(own_id, hr.repl.node_id)
      finished == [hr EXCEPT !.pc = "dispatch", !.probe = <<>>, !.repl = NoNode]
      next == IF Len(hr.probe) > ALPHA_PARAM
              THEN <<PingTo(hr.probe[ALPHA_PARAM + 1])>> ELSE <<>>
  IN
  /\ hr.pc = "probe"
  /\ j \in 1 .. Len(Take(hr.probe, ALPHA_PARAM))
  /\ UNCHANGED <<own_id, internal_values, external_values, now, lk, main, rep, ret>>
  /\ IF pong
     THEN /\ handler' = [handler EXCEPT ![h] =
                 IF rest = <<>> THEN finished ELSE [hr EXCEPT !.probe = rest]]
          /\ out' = IF rest = <<>> THEN <<>> ELSE next
          /\ UNCHANGED kbuckets
     ELSE IF i < 0
     THEN /\ handler' = [handler EXCEPT ![h] = finished]
          /\ out' = <<>>
          /\ UNCHANGED kbuckets
     ELSE IF Position(kbuckets[i], node) = 0
     THEN /\ handler' = [handler EXCEPT ![h] =
                 IF rest = <<>> THEN finished ELSE [hr EXCEPT !.probe = rest]]
          /\ out' = IF rest = <<>> THEN <<>> ELSE next
          /\ UNCHANGED kbuckets
     ELSE /\ handler' = [handler EXCEPT ![h] = [finished EXCEPT !.evicted = node]]
          /\ out' = <<>>
          /\ kbuckets' = [kbuckets EXCEPT ![i] = ReplaceIn(kbuckets[i], node, hr.repl)]

\* (mutant) FindValue answered from the internal store only
Response_InternalOnly(hr) ==
  LET m == hr.msg
      value_list == StoreGet(internal_values, m.key)
      nodes == GetClosestNodes(kbuckets, m.key, K_PARAM)
  IN
  IF m.type = "Ping"
  THEN <<Dgram(hr.src, "Pong", hr.own, m.cookie, NoId, NoValue, <<>>, <<>>)>>
  ELSE IF m.type = "FindNode"
  THEN <<Dgram(hr.src, "FoundNode", hr.own, m.cookie, NoId, NoValue, nodes, <<>>)>>
  ELSE IF m.type = "FindValue"
  THEN IF Len(value_list) > 0
       THEN <<Dgram(hr.src, "FoundValue", hr.own, m.cookie, NoId, NoValue, <<>>, value_list)>>
       ELSE <<Dgram(hr.src, "FoundNode", hr.own, m.cookie, NoId, NoValue, nodes, <<>>)>>
  ELSE <<>>

\* the reply of handle_message to a request (lines 274-317)
Response(hr) ==
  LET m == hr.msg
      value_list == StoreGet(internal_values, m.key) \o StoreGet(external_values, m.key)
      nodes == GetClosestNodes(kbuckets, m.key, K_PARAM)
  IN
  IF m.type = "Ping"
  THEN <<Dgram(hr.src, "Pong", hr.own, m.cookie, NoId, NoValue, <<>>, <<>>)>>
  ELSE IF m.type = "FindNode"
  THEN <<Dgram(hr.src, "FoundNode", hr.own, m.cookie, NoId, NoValue, nodes, <<>>)>>
  ELSE IF m.type = "FindValue"
  THEN IF Len(value_list) > 0
       THEN <<Dgram(hr.src, "FoundValue", hr.own, m.cookie, NoId, NoValue, <<>>, value_list)>>
       ELSE <<Dgram(hr.src, "FoundNode", hr.own, m.cookie, NoId, NoValue, nodes, <<>>)>>
  ELSE <<>>

\* (mutant) the Store arm without the size test
StoreArm_NoLimit(ext, m) ==
  IF m.type = "Store" THEN StorePut(ext, m.key, m.value) ELSE ext

\* the external store after handle_message's Store arm (lines 318-322)
StoreArm(ext, m) ==
  IF m.type = "Store" /\ m.value.len <= MAX_VALUE_LEN
  THEN StorePut(ext, m.key, m.value)
  ELSE ext

\* the match on the message type (lines 274-329)
HDispatch(h) ==
  LET hr == handler[h] IN
  /\ hr.pc = "dispatch"
  /\ out' = Response(hr)
  /\ external_values' = StoreArm(external_values, hr.msg)
  /\ handler' = [handler EXCEPT ![h] = Returned("ok")]
  /\ UNCHANGED <<own_id, kbuckets, internal_values, now, lk, main, rep, ret>>

----------------------------------------------------------------------------
(* The iterative lookup: kademlia.rs 341-397, with ClosestNodesIter         *)
(* (spec.md 4.F) and Server::send_many_request (spec.md 4.E)                *)

NoLookup ==
  [st |-> "off", job |-> "Node", key |-> NoId, nodes |-> <<>>, visited |-> {},
   inflight |-> {}, values |-> <<>>, value_nodes |-> K_PARAM, told |-> FALSE,
   fv_seen |-> FALSE, got |-> {}]

HasId(s, id) == \E i \in 1 .. Len(s) : s[i].node_id = id

\* a peer with the ID id at an address that is not the local one
Collides(s, id) ==
  \E i \in 1 .. Len(s) : s[i].node_id = id /\ s[i].addr # LocalAddr

RECURSIVE IterAdd(_, _, _)
\* ClosestNodesIter::add_nodes: peers whose ID is already stored are dropped,
\* the rest inserted in distance order
IterAdd(key, nodes, new) ==
  IF new = <<>> THEN nodes
  ELSE IterAdd(key,
               IF HasId(nodes, Head(new).node_id) THEN nodes
               ELSE InsertDist(key, nodes, Head(new)),
               Tail(new))

\* ClosestNodesIter::get_closest_nodes
IterClosest(l, n) == Take(l.nodes, n)

\* (mutant) an iterator that forgets which peers it has yielded
NextCand_IgnoresVisited(l) == IF l.nodes = <<>> THEN 0 ELSE 1

\* the position of the next peer the iterator yields: the closest unvisited
\* one among the K closest known, 0 when there is none
NextCand(l) ==
  LET top == Take(l.nodes, K_PARAM)
      free == {i \in 1 .. Len(top) : top[i].node_id \notin l.visited}
  IN IF free = {} THEN 0 ELSE CHOOSE i \in free : \A j \in free : i <= j

\* Vec::dedup: consecutive equal elements are merged
RECURSIVE Dedup(_)
Dedup(s) ==
  IF Len(s) <= 1 THEN s
  ELSE IF s[1] = s[2] THEN Dedup(Tail(s))
       ELSE <<s[1]>> \o Dedup(Tail(s))

\* find, lines 342-365
FindStart(job, key) ==
  LET closest == GetClosestNodes(kbuckets, key, K_PARAM) IN
  [st |-> "run", job |-> job, key |-> key, nodes |-> IterAdd(key, <<>>, closest),
   visited |-> {}, inflight |-> {}, values |-> <<>>, value_nodes |-> K_PARAM,
   told |-> Collides(closest, key), fv_seen |-> FALSE, got |-> {}]

Reply(type, nodes, values) == [type |-> type, nodes |-> nodes, values |-> values]

\* what a queried peer can resolve to
Replies(NodeLists, ValueLists) ==
  {Reply("Timeout", <<>>, <<>>)}
  \cup {Reply("FoundNode", ns, <<>>) : ns \in NodeLists}
  \cup {Reply("FoundValue", <<>>, vs) : vs \in ValueLists}

\* the fan-out driver pulls the next peer from the iterator and sends the request
LkPull(t) ==
  LET l == lk[t]
      i == NextCand(l)
      n == l.nodes[i]
  IN
  /\ l.st = "run"
  /\ Cardinality(l.inflight) < ALPHA_PARAM
  /\ i # 0
  /\ lk' = [lk EXCEPT ![t].visited = l.visited \cup {n.node_id},
                      ![t].inflight = l.inflight \cup {n.node_id}]
  /\ out' = <<Dgram(n.addr, IF l.job = "Node" THEN "FindNode" ELSE "FindValue",
                    own_id, "lookup", l.key, NoValue, <<>>, <<>>)>>
  /\ UNCHANGED <<own_id, kbuckets, internal_values, external_values, now, handler,
                 main, rep, ret>>

\* the nodes of a FoundNode reply that find hands to the iterator (lines 370-371)
FilterOwn(nodes, own) == SeqFilterOut(nodes, own)

\* (mutant) a FoundValue without a value counted as a value-bearing reply
FindOnReply_CountsEmpty(l, r, own) ==
  IF r.type = "FoundNode"
  THEN [l EXCEPT !.nodes = IterAdd(l.key, l.nodes, FilterOwn(r.nodes, own)),
                 !.told = l.told \/ Collides(r.nodes, l.key)]
  ELSE IF r.type = "FoundValue" /\ l.job = "Value"
  THEN LET vn == l.value_nodes - 1
       IN [l EXCEPT !.value_nodes = vn,
                    !.values = Dedup(l.values \o r.values),
                    !.st = IF vn = 0 THEN "ret" ELSE "run",
                    !.fv_seen = l.fv_seen \/ Len(r.values) > 0]
  ELSE IF r.type = "FoundValue"
  THEN [l EXCEPT !.fv_seen = l.fv_seen \/ Len(r.values) > 0]
  ELSE l

\* (mutant) the FoundValue arm taken whatever the job
FindOnReply_AnyJob(l, r, own) ==
  IF r.type = "FoundNode"
  THEN [l EXCEPT !.nodes = IterAdd(l.key, l.nodes, FilterOwn(r.nodes, own)),
                 !.told = l.told \/ Collides(r.nodes, l.key)]
  ELSE IF r.type = "FoundValue"
  THEN LET vn == IF Len(r.values) > 0 THEN l.value_nodes - 1 ELSE l.value_nodes
       IN [l EXCEPT !.value_nodes = vn,
                    !.values = Dedup(l.values \o r.values),
                    !.st = IF vn = 0 THEN "ret" ELSE "run",
                    !.fv_seen = l.fv_seen \/ Len(r.values) > 0]
  ELSE l

\* one iteration of the reply loop (lines 367-390); told and fv_seen only
\* record what the replies held: a peer with the looked-up ID at another
\* address, a FoundValue with at least one value
FindOnReply(l, r, own) ==
  IF r.type = "FoundNode"
  THEN [l EXCEPT !.nodes = IterAdd(l.key, l.nodes, FilterOwn(r.nodes, own)),
                 !.told = l.told \/ Collides(r.nodes, l.key)]
  ELSE IF r.type = "FoundValue" /\ l.job = "Value"
  THEN LET vn == IF Len(r.values) > 0 THEN l.value_nodes - 1 ELSE l.value_nodes
       IN [l EXCEPT !.value_nodes = vn,
                    !.values = Dedup(l.values \o r.values),
                    !.st = IF vn = 0 THEN "ret" ELSE "run",
                    !.fv_seen = l.fv_seen \/ Len(r.values) > 0]
  ELSE IF r.type = "FoundValue"
  THEN [l EXCEPT !.fv_seen = l.fv_seen \/ Len(r.values) > 0]
  ELSE l

\* a request in flight resolves and find handles the (peer, reply) pair; got
\* only records which peer sent which FoundValue list to a value lookup
LkReply(t, id, r) ==
  LET l == lk[t]
      log == IF r.type = "FoundValue" /\ l.job = "Value"
             THEN l.got \cup {<<id, r.values>>} ELSE l.got
  IN
  /\ l.st = "run"
  /\ id \in l.inflight
  /\ lk' = [lk EXCEPT ![t] =
       FindOnReply([l EXCEPT !.inflight = l.inflight \ {id}, !.got = log], r, own_id)]
  /\ out' = <<>>
  /\ UNCHANGED <<own_id, kbuckets, internal_values, external_values, now, handler,
                 main, rep, ret>>

\* the reply channel is closed: the iterator is exhausted and nothing is in flight
Exhausted(l) == l.st = "run" /\ l.inflight = {} /\ NextCand(l) = 0

\* find has returned, from the loop (line 385) or after it (lines 392-396)
FindReturned(l) == l.st = "ret" \/ Exhausted(l)

FindResult(l) ==
  IF l.st = "ret" \/ Len(l.values) > 0
  THEN [ok |-> TRUE, values |-> l.values, nodes |-> <<>>]
  ELSE [ok |-> FALSE, values |-> <<>>, nodes |-> IterClosest(l, K_PARAM)]

----------------------------------------------------------------------------
(* bootstrap: kademlia.rs 87-127 *)

\* a return of the public API: the call (op, key, arg) and what it returned
\* (ok, the value an Err carries, the list a get returns)
NoRet ==
  [op |-> "none", key |-> NoId, arg |-> NoValue, ok |-> TRUE, err |-> NoValue,
   values |-> <<>>]

IdleMain == [pc |-> "idle", key |-> NoId, value |-> NoValue, todo |-> <<>>]

\* one supernode address (lines 93-103): a peer under a random node ID, or
\* nothing when the address does not resolve
BootAddSupernode(node_id, resolves) ==
  /\ main.pc = "boot_sn"
  /\ main.todo # <<>>
  /\ kbuckets' = IF resolves
                 THEN KbAdd(kbuckets, own_id, Node(node_id, Head(main.todo), now))
                 ELSE kbuckets
  /\ main' = [main EXCEPT !.todo = Tail(main.todo)]
  /\ out' = <<>>
  /\ UNCHANGED <<own_id, internal_values, external_values, now, handler, lk, rep, ret>>

\* set_own_id (lines 107, 141-144) with the desired or a random ID
BootSetOwnId(new_id) ==
  /\ \/ main.pc = "boot_sn" /\ main.todo = <<>>
     \/ main.pc = "boot_retry"
  /\ own_id' = new_id
  /\ main' = [main EXCEPT !.pc = "boot_find", !.key = new_id]
  /\ out' = <<>>
  /\ UNCHANGED <<kbuckets, internal_values, external_values, now, handler, lk, rep, ret>>

\* find_node(new_id) starts (line 109)
BootFind ==
  /\ main.pc = "boot_find"
  /\ lk' = [lk EXCEPT !["main"] = FindStart("Node", main.key)]
  /\ main' = [main EXCEPT !.pc = "boot_lookup"]
  /\ out' = <<>>
  /\ UNCHANGED <<own_id, kbuckets, internal_values, external_values, now, handler, rep, ret>>

\* the collision test of lines 111-114
IdTaken(node_list, new_id) == Collides(node_list, new_id)

\* find_node has returned (lines 109-123)
BootCheck ==
  LET res == FindResult(lk["main"]) IN
  /\ main.pc = "boot_lookup"
  /\ FindReturned(lk["main"])
  /\ main' = IF res.ok THEN [main EXCEPT !.pc = "panic"]
             ELSE IF IdTaken(res.nodes, main.key)
             THEN [main EXCEPT !.pc = "boot_retry"]
             ELSE [main EXCEPT !.pc = "boot_add", !.todo = res.nodes]
  /\ out' = <<>>
  /\ UNCHANGED <<own_id, kbuckets, internal_values, external_values, now, handler, lk, rep, ret>>

\* one kbuckets.add of lines 116-118
BootAddResult ==
  /\ main.pc = "boot_add"
  /\ main.todo # <<>>
  /\ kbuckets' = KbAdd(kbuckets, own_id, Head(main.todo))
  /\ main' = [main EXCEPT !.todo = Tail(main.todo)]
  /\ out' = <<>>
  /\ UNCHANGED <<own_id, internal_values, external_values, now, handler, lk, rep, ret>>

\* bootstrap returns the node (lines 120, 126)
BootReturn ==
  /\ main.pc = "boot_add"
  /\ main.todo = <<>>
  /\ main' = IdleMain
  /\ ret' = [NoRet EXCEPT !.op = "bootstrap", !.key = main.key]
  /\ out' = <<>>
  /\ UNCHANGED <<own_id, kbuckets, internal_values, external_values, now, handler, lk, rep>>

----------------------------------------------------------------------------
(* put, publish, the republisher, remove, remove_key, get: kademlia.rs 133-189 *)

IdleRep == [pc |-> "off", key |-> NoId, value |-> NoValue]

\* the Store datagrams of publish (lines 171-180)
StoresTo(nodes, key, value) ==
  [j \in 1 .. Len(nodes) |->
     Dgram(nodes[j].addr, "Store", own_id, "store", key, value, <<>>, <<>>)]

\* (mutant) the size test off by one
Oversize_OffByOne(value) == value.len > MAX_VALUE_LEN + 1

\* put's size test (line 147)
Oversize(value) == value.len > MAX_VALUE_LEN

\* put up to the start of publish's find_node (lines 147-152, 178); a rejected
\* put returns at once (line 148)
Put(key, value) ==
  /\ main.pc = "idle"
  /\ \E r \in Republishers : rep[r].pc = "off"
  /\ out' = <<>>
  /\ UNCHANGED <<own_id, kbuckets, external_values, now, handler, rep>>
  /\ IF Oversize(value)
     THEN /\ ret' = [NoRet EXCEPT !.op = "put", !.key = key, !.arg = value,
                                  !.ok = FALSE, !.err = value]
          /\ UNCHANGED <<internal_values, lk, main>>
     ELSE /\ internal_values' = StorePut(internal_values, key, value)
          /\ lk' = [lk EXCEPT !["main"] = FindStart("Node", key)]
          /\ main' = [IdleMain EXCEPT !.pc = "put_lookup", !.key = key, !.value = value]
          /\ ret' = NoRet

\* publish sends the Stores, put spawns the republisher and returns (lines 178-167)
PutPublish(r) ==
  LET res == FindResult(lk["main"]) IN
  /\ main.pc = "put_lookup"
  /\ FindReturned(lk["main"])
  /\ rep[r].pc = "off"
  /\ r = CHOOSE q \in Republishers : rep[q].pc = "off"
  /\ out' = StoresTo(res.nodes, main.key, main.value)
  /\ rep' = [rep EXCEPT ![r] = [pc |-> "check", key |-> main.key, value |-> main.value]]
  /\ ret' = [NoRet EXCEPT !.op = "put", !.key = main.key, !.arg = main.value]
  /\ main' = IdleMain
  /\ lk' = [lk EXCEPT !["main"] = NoLookup]
  /\ UNCHANGED <<own_id, kbuckets, internal_values, external_values, now, handler>>

\* (mutant) a republisher that never tests the binding
StillStored_Always(key, value) == TRUE

\* whether the republisher goes on to publish (line 159)
StillStored(key, value) == StoreContains(internal_values, key, value)

\* the republisher wakes up, tests the binding and starts publish's find_node
\* (lines 158-163)
RepCheck(r) ==
  /\ rep[r].pc = "check"
  /\ out' = <<>>
  /\ UNCHANGED <<own_id, kbuckets, internal_values, external_values, now, handler,
                 main, ret>>
  /\ IF StillStored(rep[r].key, rep[r].value)
     THEN /\ rep' = [rep EXCEPT ![r].pc = "lookup"]
          /\ lk' = [lk EXCEPT ![r] = FindStart("Node", rep[r].key)]
     ELSE /\ rep' = [rep EXCEPT ![r] = IdleRep]
          /\ lk' = [lk EXCEPT ![r] = NoLookup]

\* the republisher's publish sends the Stores; then it sleeps (lines 163-164)
RepPublish(r) ==
  LET res == FindResult(lk[r]) IN
  /\ rep[r].pc = "lookup"
  /\ FindReturned(lk[r])
  /\ out' = StoresTo(res.nodes, rep[r].key, rep[r].value)
  /\ rep' = [rep EXCEPT ![r].pc = "check"]
  /\ lk' = [lk EXCEPT ![r] = NoLookup]
  /\ UNCHANGED <<own_id, kbuckets, internal_values, external_values, now, handler,
                 main, ret>>

\* (mutant) a remove that also drops the binding from the external store
Remove_BothStores(key, value) ==
  /\ internal_values' = StoreRemove(internal_values, key, value)
  /\ external_values' = StoreRemove(external_values, key, value)
  /\ out' = <<>>
  /\ UNCHANGED <<own_id, kbuckets, now, handler, lk, main, rep, ret>>

\* remove (lines 183-185), called on any clone of the node
Remove(key, value) ==
  /\ internal_values' = StoreRemove(internal_values, key, value)
  /\ out' = <<>>
  /\ UNCHANGED <<own_id, kbuckets, external_values, now, handler, lk, main, rep, ret>>

\* remove_key (lines 187-189)
RemoveKey(key) ==
  /\ internal_values' = StoreRemoveKey(internal_values, key)
  /\ out' = <<>>
  /\ UNCHANGED <<own_id, kbuckets, external_values, now, handler, lk, main, rep, ret>>

\* get starts find_value (lines 133-134, 337-338)
Get(key) ==
  /\ main.pc = "idle"
  /\ lk' = [lk EXCEPT !["main"] = FindStart("Value", key)]
  /\ main' = [IdleMain EXCEPT !.pc = "get_lookup", !.key = key]
  /\ ret' = NoRet
  /\ out' = <<>>
  /\ UNCHANGED <<own_id, kbuckets, internal_values, external_values, now, handler, rep>>

\* what get makes of find_value's result (line 134)
GetValues(res) == IF res.ok THEN res.values ELSE <<>>

GetReturn ==
  /\ main.pc = "get_lookup"
  /\ FindReturned(lk["main"])
  /\ ret' = [NoRet EXCEPT !.op = "get", !.key = main.key,
                          !.values = GetValues(FindResult(lk["main"]))]
  /\ main' = IdleMain
  /\ lk' = [lk EXCEPT !["main"] = NoLookup]
  /\ out' = <<>>
  /\ UNCHANGED <<own_id, kbuckets, internal_values, external_values, now, handler, rep>>

\* get called by the second application thread (lines 133-134, 337-338)
AppGet(key) ==
  /\ lk["app"].st = "off"
  /\ lk' = [lk EXCEPT !["app"] = FindStart("Value", key)]
  /\ out' = <<>>
  /\ UNCHANGED <<own_id, kbuckets, internal_values, external_values, now, handler,
                 main, rep, ret>>

AppGetReturn ==
  /\ lk["app"].st # "off"
  /\ FindReturned(lk["app"])
  /\ ret' = [NoRet EXCEPT !.op = "get", !.key = lk["app"].key,
                          !.values = GetValues(FindResult(lk["app"]))]
  /\ lk' = [lk EXCEPT !["app"] = NoLookup]
  /\ out' = <<>>
  /\ UNCHANGED <<own_id, kbuckets, internal_values, external_values, now, handler,
                 main, rep>>

\* an entry of the external store passes its expiry
ExpireExternal(kv) ==
  /\ kv \in external_values
  /\ external_values' = external_values \ {kv}
  /\ out' = <<>>
  /\ UNCHANGED <<own_id, kbuckets, internal_values, now, handler, lk, main, rep, ret>>

----------------------------------------------------------------------------
(* A node made by new_supernode / create: handlers only *)

SuperOwnIds == {0}
TableAddrs == {"a1"}
\* one sender more than a bucket holds, all in the top bucket of node 0
TableSenders == 4 .. (4 + K_PARAM)
TableMsgs ==
  {m \in InMsgs(TableSenders, {1}, {ValueOrder[1]}) : m.type \in {"Ping", "Timeout"}}

InitCreate(ids) ==
  /\ own_id \in ids
  /\ kbuckets = EmptyBuckets
  /\ internal_values = {}
  /\ external_values = {}
  /\ now = 0
  /\ handler = [h \in Handlers |-> IdleHandler]
  /\ lk = [t \in Finders |-> NoLookup]
  /\ main = IdleMain
  /\ rep = [r \in Republishers |-> IdleRep]
  /\ ret = NoRet
  /\ out = <<>>

HandlerStep(h) ==
  \/ HUpdateBuckets(h)
  \/ HProbeStart(h)
  \/ \E j \in 1 .. ALPHA_PARAM, pong \in BOOLEAN : HProbeReply(h, j, pong)
  \/ HDispatch(h)

InitSuper == InitCreate(SuperOwnIds)

NextSuper ==
  \/ ClockTick
  \/ \E h \in Handlers :
       \/ \E src \in TableAddrs, m \in TableMsgs : Receive(h, src, m)
       \/ HandlerStep(h)

SpecSuper == InitSuper /\ [][NextSuper]_vars

----------------------------------------------------------------------------
(* A node made by bootstrap, with handlers running from create on *)

BootCreateIds == {0}
BootNewIds == {5, 6}
PlaceholderIds == {4, 5}
SupernodeLists == {<<"a1">>, <<"a1", "a2">>}
BootSenders == {6, NoId}
BootMsgs == {m \in InMsgs(BootSenders, {1}, {ValueOrder[1]}) : m.type \in {"Ping"}}
BootReplies ==
  Replies({<<Node(5, "a2", 0)>>, <<Node(6, LocalAddr, 0), Node(7, "a1", 0)>>},
          {<<ValueOrder[1]>>})

InitBoot ==
  /\ own_id \in BootCreateIds
  /\ kbuckets = EmptyBuckets
  /\ internal_values = {}
  /\ external_values = {}
  /\ now = 0
  /\ handler = [h \in Handlers |-> IdleHandler]
  /\ lk = [t \in Finders |-> NoLookup]
  /\ main \in {[IdleMain EXCEPT !.pc = "boot_sn", !.todo = sl] : sl \in SupernodeLists}
  /\ rep = [r \in Republishers |-> IdleRep]
  /\ ret = NoRet
  /\ out = <<>>

BootStep ==
  \/ \E id \in PlaceholderIds, resolves \in BOOLEAN : BootAddSupernode(id, resolves)
  \/ \E id \in BootNewIds : BootSetOwnId(id)
  \/ BootFind
  \/ BootCheck
  \/ BootAddResult
  \/ BootReturn

NextBoot ==
  \/ ClockTick
  \/ BootStep
  \/ LkPull("main")
  \/ \E id \in IDs, r \in BootReplies : LkReply("main", id, r)
  \/ \E src \in TableAddrs, m \in BootMsgs : Receive("h1", src, m)
  \/ HandlerStep("h1")

SpecBoot == InitBoot /\ [][NextBoot]_vars

----------------------------------------------------------------------------
(* A node with peers: put / remove / republish and inbound Stores *)

StoreKeys == {1}
StoreOwnIds == {0}
\* routing tables the handlers can have built
StoreTables ==
  { EmptyBuckets,
    [EmptyBuckets EXCEPT ![1] = <<Node(3, "a2", 0)>>, ![2] = <<Node(4, "a1", 0)>>] }
StoreSenders == {4}
StoreMsgs == {m \in InMsgs(StoreSenders, StoreKeys, Values) : m.type \in {"Store"}}
PutReplies == Replies({<<>>, <<Node(2, "a2", 0)>>}, {<<ValueOrder[1]>>})

InitStore ==
  /\ own_id \in StoreOwnIds
  /\ kbuckets \in StoreTables
  /\ internal_values = {}
  /\ external_values = {}
  /\ now = 0
  /\ handler = [h \in Handlers |-> IdleHandler]
  /\ lk = [t \in Finders |-> NoLookup]
  /\ main = IdleMain
  /\ rep = [r \in Republishers |-> IdleRep]
  /\ ret = NoRet
  /\ out = <<>>

NextPut ==
  \/ \E k \in StoreKeys, v \in Values : Put(k, v)
  \/ \E r \in Republishers : PutPublish(r)
  \/ \E r \in Republishers : RepCheck(r)
  \/ \E r \in Republishers : RepPublish(r)
  \/ \E k \in StoreKeys, v \in Values : Remove(k, v)
  \/ \E k \in StoreKeys : RemoveKey(k)
  \/ \E t \in Finders : LkPull(t)
  \/ \E t \in Finders, id \in IDs, r \in PutReplies : LkReply(t, id, r)

SpecPut == InitStore /\ [][NextPut]_vars

----------------------------------------------------------------------------
(* The same node: put, remove and get with peers that answer FindValue *)

GetReplies ==
  Replies({<<>>, <<Node(2, "a2", 0)>>},
          {<<>>, <<ValueOrder[1]>>, <<ValueOrder[2]>>, <<ValueOrder[1], ValueOrder[2]>>})

NextGet ==
  \/ \E k \in StoreKeys, v \in Values : Put(k, v)
  \/ \E r \in Republishers : PutPublish(r)
  \/ \E k \in StoreKeys, v \in Values : Remove(k, v)
  \/ \E k \in StoreKeys : Get(k)
  \/ GetReturn
  \/ LkPull("main")
  \/ \E id \in IDs, r \in GetReplies : LkReply("main", id, r)

SpecGet == InitStore /\ [][NextGet]_vars

----------------------------------------------------------------------------
(* The same node: local puts and inbound Stores, with peers that never answer *)

InboundReplies == Replies({}, {})

NextInbound ==
  \/ \E k \in StoreKeys, v \in Values : Put(k, v)
  \/ \E r \in Republishers : PutPublish(r)
  \/ \E r \in Republishers : RepCheck(r)
  \/ \E r \in Republishers : RepPublish(r)
  \/ \E k \in StoreKeys, v \in Values : Remove(k, v)
  \/ \E k \in StoreKeys : RemoveKey(k)
  \/ \E t \in Finders : LkPull(t)
  \/ \E t \in Finders, id \in IDs, r \in InboundReplies : LkReply(t, id, r)
  \/ \E src \in TableAddrs, m \in StoreMsgs : Receive("h1", src, m)
  \/ HUpdateBuckets("h1")
  \/ HDispatch("h1")
  \/ \E kv \in StoreKeys \X Values : ExpireExternal(kv)

SpecInbound == InitStore /\ [][NextInbound]_vars

----------------------------------------------------------------------------
(* The same node handling every type of inbound message, from accepted and  *)
(* from rejected senders                                                    *)

DispatchCookies == {"c1", "c2"}
\* an accepted sender, the local ID itself, and no sender ID
DispatchSenders == {4} \cup StoreOwnIds \cup {NoId}
DispatchValues == {ValueOrder[1], ValueOrder[3]}
DispatchMsgs ==
  {[m EXCEPT !.cookie = IF m.type = "Timeout" THEN m.cookie ELSE c] :
     m \in InMsgs(DispatchSenders, StoreKeys, DispatchValues), c \in DispatchCookies}
\* the internal stores earlier puts can have left, with their republishers
DispatchStored == {{}, {<<1, ValueOrder[2]>>}}

InitDispatch ==
  /\ own_id \in StoreOwnIds
  /\ kbuckets \in StoreTables
  /\ internal_values \in DispatchStored
  /\ external_values = {}
  /\ now = 0
  /\ handler = [h \in Handlers |-> IdleHandler]
  /\ lk = [t \in Finders |-> NoLookup]
  /\ main = IdleMain
  /\ rep = [r \in Republishers |->
              IF r = "r1" /\ <<1, ValueOrder[2]>> \in internal_values
              THEN [pc |-> "check", key |-> 1, value |-> ValueOrder[2]]
              ELSE IdleRep]
  /\ ret = NoRet
  /\ out = <<>>

NextDispatch ==
  \/ \E src \in Addrs, m \in DispatchMsgs : Receive("h1", src, m)
  \/ HUpdateBuckets("h1")
  \/ HDispatch("h1")
  \/ \E kv \in StoreKeys \X Values : ExpireExternal(kv)

SpecDispatch == InitDispatch /\ [][NextDispatch]_vars

----------------------------------------------------------------------------
(* A node whose table holds two far peers, looking up a value: the peers    *)
(* answer with closer peers, with values, or not at all                     *)

LookupOwnIds == {0}
LookupKeys == {1}
LookupTables ==
  { [EmptyBuckets EXCEPT ![2] = <<Node(4, "a1", 0), Node(7, "a2", 0)>>] }
LookupReplies ==
  Replies({<<Node(1, "a1", 0), Node(3, "a2", 0)>>},
          {<<>>, <<ValueOrder[1]>>, <<ValueOrder[2]>>, <<ValueOrder[1], ValueOrder[2]>>})

InitLookup ==
  /\ own_id \in LookupOwnIds
  /\ kbuckets \in LookupTables
  /\ internal_values = {}
  /\ external_values = {}
  /\ now = 0
  /\ handler = [h \in Handlers |-> IdleHandler]
  /\ lk = [t \in Finders |-> NoLookup]
  /\ main = IdleMain
  /\ rep = [r \in Republishers |-> IdleRep]
  /\ ret = NoRet
  /\ out = <<>>

NextLookup ==
  \/ \E k \in LookupKeys : Get(k)
  \/ GetReturn
  \/ LkPull("main")
  \/ \E id \in IDs, r \in LookupReplies : LkReply("main", id, r)

SpecLookup == InitLookup /\ [][NextLookup]_vars

\* the fan-out driver keeps pulling while it may, every request in flight
\* resolves, and the caller goes on when find has returned
LookupFairness ==
  /\ WF_vars(LkPull("main"))
  /\ WF_vars(\E id \in IDs, r \in LookupReplies : LkReply("main", id, r))
  /\ WF_vars(GetReturn)

SpecLookupFair == SpecLookup /\ LookupFairness

----------------------------------------------------------------------------
(* The same node with two threads looking up the same key at once           *)

OrderReplies ==
  Replies({}, {<<ValueOrder[1]>>, <<ValueOrder[2]>>, <<ValueOrder[1], ValueOrder[2]>>})

NextOrder ==
  \/ \E k \in LookupKeys : Get(k)
  \/ GetReturn
  \/ \E k \in LookupKeys : AppGet(k)
  \/ AppGetReturn
  \/ \E t \in {"main", "app"} : LkPull(t)
  \/ \E t \in {"main", "app"}, id \in IDs, r \in OrderReplies : LkReply(t, id, r)

SpecOrder == InitLookup /\ [][NextOrder]_vars

----------------------------------------------------------------------------
(* Routing-table properties *)

\* the places <<bucket, position>> of the routing table
Places(kb) == {ip \in BucketIdxs \X (1 .. (K_PARAM + 1)) : ip[2] <= Len(kb[ip[1]])}

NoSharedId(kb) ==
  \A p \in Places(kb), q \in Places(kb) :
    kb[p[1]][p[2]].node_id = kb[q[1]][q[2]].node_id => p = q

\* C5 (as claimed): no two entries of the routing table have the same node ID
C5_Uniqueness == NoSharedId(kbuckets)

\* C6: every bucket holds at most K_PARAM peers
C6_BucketCapacity == \A i \in BucketIdxs : Len(kbuckets[i]) <= K_PARAM

\* bootstrap has inserted its peers and returned, an eviction probe has
\* replaced a peer, and a bucket is full
C6_Witness ==
  /\ ret.op = "bootstrap"
  /\ \E h \in Handlers : handler[h].evicted # NoNode
  /\ \E i \in BucketIdxs : Len(kbuckets[i]) = K_PARAM

\* C7 (as claimed): no routing-table entry has the node's current local ID
C7_NoSelf ==
  \A p \in Places(kbuckets) : kbuckets[p[1]][p[2]].node_id # own_id

\* C8 (as claimed): every peer stored in bucket i is at distance class i from
\* the node's current local ID
C8_DistancePlacement ==
  \A p \in Places(kbuckets) :
    BucketIndex(own_id, kbuckets[p[1]][p[2]].node_id) = p[1]

\* C10 (as claimed): bootstrap keeps a candidate ID only if its lookup was told
\* of no peer with that ID at another address
C10_CollisionRejected ==
  main.pc = "boot_add" => ~lk["main"].told

----------------------------------------------------------------------------
(* Value-store properties *)

RECURSIVE SeqToSet(_)
SeqToSet(s) == IF s = <<>> THEN {} ELSE {Head(s)} \cup SeqToSet(Tail(s))

\* C1 (as claimed): a get(k) that has returned lists every value v that put
\* stored under k and that no remove took away
C1_PutGetLocality ==
  ret.op = "get" =>
    \A v \in Values :
      StoreContains(internal_values, ret.key, v) => v \in SeqToSet(ret.values)

\* C2: a put of an oversized value returns Err with exactly that value and
\* changes nothing else: no store, no lookup, no republisher, no datagram; and
\* a put that goes on to store and publish is not oversized
C2_OversizeRejected ==
  [][ /\ (ret' # ret /\ ret'.op = "put" /\ ret'.arg.len > MAX_VALUE_LEN) =>
          /\ ~ret'.ok
          /\ ret'.err = ret'.arg
          /\ main.pc = "idle"
          /\ UNCHANGED <<own_id, kbuckets, internal_values, external_values, lk,
                         main, rep, handler>>
          /\ out' = <<>>
      /\ (main.pc = "idle" /\ main'.pc = "put_lookup") =>
           main'.value.len <= MAX_VALUE_LEN
    ]_vars

C2_Witness == ret.op = "put" /\ ~ret.ok /\ ret.err.len > MAX_VALUE_LEN

\* C3: neither value store holds a value longer than MAX_VALUE_LEN
C3_ValueSize ==
  \A kv \in internal_values \cup external_values : kv[2].len <= MAX_VALUE_LEN

C3_Witness ==
  /\ \E kv \in internal_values : kv[2].len = MAX_VALUE_LEN
  /\ \E kv \in external_values : kv[2].len = MAX_VALUE_LEN
  /\ ret.op = "put" /\ ~ret.ok

StoreSent(dgrams, key, value) ==
  \E j \in 1 .. Len(dgrams) :
    dgrams[j].type = "Store" /\ dgrams[j].key = key /\ dgrams[j].value = value

Absent(key, value) == ~StoreContains(internal_values, key, value)

\* C4 (as claimed): while the binding (k, v) is removed and not put again, the
\* node sends no Store{k, v}
C4_NoStoreAfterRemove ==
  [][ \A k \in Keys, v \in Values :
        (Absent(k, v) /\ Absent(k, v)') => ~StoreSent(out', k, v) ]_vars

\* a publish round of (k, v) is under way in thread t
InRound(t, k, v) ==
  IF t = "main" THEN main.pc = "put_lookup" /\ main.key = k /\ main.value = v
  ELSE IF t \in Republishers
  THEN rep[t].pc = "lookup" /\ rep[t].key = k /\ rep[t].value = v
  ELSE FALSE

\* C4 (amended): while the binding (k, v) is removed and not put again, no
\* thread begins a publish round of (k, v), and a Store{k, v} is sent only by
\* a round that was under way
C4_NoNewRoundAfterRemove ==
  [][ \A k \in Keys, v \in Values :
        (Absent(k, v) /\ Absent(k, v)') =>
          /\ \A t \in Finders : InRound(t, k, v)' => InRound(t, k, v)
          /\ StoreSent(out', k, v) => \E t \in Finders : InRound(t, k, v) /\ ~InRound(t, k, v)'
    ]_vars

\* a republisher has exited after a remove, and a late Store of a round that
\* was under way has just been sent
C4_Witness ==
  \E k \in Keys, v \in Values :
    /\ Absent(k, v)
    /\ StoreSent(out, k, v)
    /\ \E r \in Republishers : rep[r].pc = "check" /\ rep[r].key = k /\ rep[r].value = v

NoDuplicates(s) == \A i \in 1 .. Len(s), j \in 1 .. Len(s) : s[i] = s[j] => i = j

\* C9 (as claimed): the list get returns holds no value twice
C9_DeduplicatedResult == ret.op = "get" => NoDuplicates(ret.values)

----------------------------------------------------------------------------
(* Eviction-probe properties *)

\* handler h's probe evicts a peer in this step
Evicts(h) ==
  /\ handler[h].pc = "probe"
  /\ handler'[h].evicted # NoNode

\* C11 (as claimed): when the probe of a full bucket evicts a peer before any
\* probed peer has answered, the evicted peer is the stalest of the snapshot:
\* no probed peer has a smaller last_seen
C11_StalestReplaced ==
  [][ \A h \in Handlers :
        (Evicts(h) /\ Len(handler[h].probe) = K_PARAM) =>
          \A j \in 1 .. Len(handler[h].probe) :
            handler'[h].evicted.last_seen <= handler[h].probe[j].last_seen
    ]_vars

----------------------------------------------------------------------------
(* Lookup properties *)

\* C12: a find(Node, key) that has returned has returned the Err arm, whatever
\* replies it got, so bootstrap's find_node never panics in unwrap_err and
\* the peers bootstrap goes on to add are the iterator's K_PARAM closest
C12_FindNodeFrontier ==
  [][ /\ main'.pc # "panic"
      /\ \A t \in Finders :
           (lk'[t].job = "Node" /\ FindReturned(lk'[t])) =>
             /\ ~FindResult(lk'[t]).ok
             /\ lk'[t].values = <<>>
      /\ (main.pc = "boot_lookup" /\ main'.pc = "boot_add") =>
           main'.todo = Take(lk["main"].nodes, K_PARAM)
    ]_vars

\* bootstrap's find_node got a FoundValue reply holding a value and a
\* FoundNode reply, and has returned a frontier of K_PARAM peers
C12_Witness ==
  /\ main.pc = "boot_add"
  /\ lk["main"].job = "Node"
  /\ lk["main"].fv_seen
  /\ Len(main.todo) = K_PARAM

----------------------------------------------------------------------------
(* Republisher properties *)

\* republisher thread r is alive for the binding (k, v)
Alive(r, k, v) == rep[r].pc # "off" /\ rep[r].key = k /\ rep[r].value = v

\* C13 (as claimed): at most one republisher thread is alive for a binding
C13_OneRepublisher ==
  \A k \in Keys, v \in Values :
    \A r \in Republishers, q \in Republishers :
      (Alive(r, k, v) /\ Alive(q, k, v)) => r = q

----------------------------------------------------------------------------
(* Message-handling properties *)

\* handler h takes the step that runs update_buckets on its message
Updates(h) == handler[h].pc = "update" /\ handler'[h] # handler[h]

\* the message of handler h has no sender ID or claims the local ID
BadSender(h) ==
  /\ handler[h].msg.type # "Timeout"
  /\ \/ handler[h].msg.sender_id = NoId
     \/ handler[h].msg.sender_id = own_id
     \/ handler[h].msg.sender_id = handler[h].own

\* C14: a non-Timeout message without a sender ID, or with the local ID as
\* its sender ID, makes handle_message return an error at update_buckets:
\* the routing table and both stores are unchanged, nothing is sent and the
\* dispatch is never reached, whatever the type of the message
C14_RejectedSenders ==
  [][ \A h \in Handlers :
        (Updates(h) /\ BadSender(h)) =>
          /\ handler'[h] = Returned("err")
          /\ UNCHANGED <<kbuckets, internal_values, external_values>>
          /\ out' = <<>>
    ]_vars

\* handle_message has returned an error for the message of a rejected
\* sender, after the Store of an accepted sender was stored
C14_Witness ==
  /\ handler["h1"].result = "err"
  /\ external_values # {}

\* handler h takes a step of its eviction probe
Probes(h) == handler[h].pc = "probe" /\ handler'[h] # handler[h]

\* C15: a step of one run of the eviction probe leaves the routing table
\* alone when the probed peer answered Pong or the run evicts nobody;
\* otherwise the run ends with this step, the evicted peer is one of the
\* pinged peers and was still in the candidate's bucket, and the table
\* changes by exactly that peer removed and the candidate appended at the
\* tail of that bucket
C15_ProbeEffect ==
  [][ \A h \in Handlers :
        Probes(h) =>
          LET hr == handler[h]
              e == handler'[h].evicted
              i == BucketIndex(own_id, hr.repl.node_id)
          IN
          /\ \A j \in 1 .. ALPHA_PARAM : HProbeReply(h, j, TRUE) => UNCHANGED kbuckets
          /\ IF e = NoNode THEN UNCHANGED kbuckets
             ELSE /\ handler'[h].pc = "dispatch"
                  /\ \E j \in 1 .. Len(Take(hr.probe, ALPHA_PARAM)) : hr.probe[j] = e
                  /\ i >= 0
                  /\ Position(kbuckets[i], e) # 0
                  /\ kbuckets' = [kbuckets EXCEPT ![i] =
                       Append(RemoveAt(@, Position(@, e)), hr.repl)]
    ]_vars

\* a probe has replaced a silent peer by its candidate, which is now at the
\* tail of the bucket, while the other handler's probe ended with every
\* peer answering and the candidate discarded
C15_Witness ==
  \E h \in Handlers, g \in Handlers :
    LET i == BucketIndex(own_id, handler[h].msg.sender_id) IN
    /\ handler[h].pc = "dispatch"
    /\ handler[h].evicted # NoNode
    /\ i >= 0
    /\ Len(kbuckets[i]) = K_PARAM
    /\ kbuckets[i][K_PARAM].node_id = handler[h].msg.sender_id
    /\ ~HasId(kbuckets[i], handler[h].evicted.node_id)
    /\ g # h
    /\ handler[g].pc = "dispatch"
    /\ handler[g].evicted = NoNode
    /\ ~HasId(AllNodes(kbuckets), handler[g].msg.sender_id)

\* handler h takes the step that matches on the type of its message
Dispatches(h) == handler[h].pc = "dispatch" /\ handler'[h] # handler[h]

\* the values either store holds under key
Stored(key) == {kv[2] : kv \in {x \in internal_values \cup external_values : x[1] = key}}

\* nodes lists up to K_PARAM peers of the routing table, none of them farther
\* from key than a peer of the table that is left out
ClosestOfTable(nodes, key) ==
  LET all == AllNodes(kbuckets) IN
  /\ Len(nodes) <= K_PARAM
  /\ Len(nodes) = IF Len(all) < K_PARAM THEN Len(all) ELSE K_PARAM
  /\ \A j \in 1 .. Len(nodes) : \E a \in 1 .. Len(all) : all[a] = nodes[j]
  /\ \A j \in 1 .. Len(nodes), a \in 1 .. Len(all) :
       HasId(nodes, all[a].node_id) \/ Xor(key, nodes[j].node_id) <= Xor(key, all[a].node_id)

\* C16: the dispatch of a request of an accepted sender sends exactly one
\* reply, to src, with the request's cookie and the local ID the task read:
\* Pong for Ping, FoundNode with the closest peers for FindNode, and for
\* FindValue a FoundValue with every stored value of the key when there is
\* one, a FoundNode otherwise; the other message types send nothing
C16_RequestDispatch ==
  [][ \A h \in Handlers :
        Dispatches(h) =>
          LET hr == handler[h]
              m == hr.msg
          IN
          IF m.type \in {"Ping", "FindNode", "FindValue"}
          THEN /\ Len(out') = 1
               /\ out'[1].dst = hr.src
               /\ out'[1].cookie = m.cookie
               /\ out'[1].sender_id = hr.own
               /\ m.type = "Ping" => out'[1].type = "Pong"
               /\ m.type = "FindNode" =>
                    out'[1].type = "FoundNode" /\ ClosestOfTable(out'[1].nodes, m.key)
               /\ (m.type = "FindValue" /\ Stored(m.key) # {}) =>
                    /\ out'[1].type = "FoundValue"
                    /\ SeqToSet(out'[1].values) = Stored(m.key)
               /\ (m.type = "FindValue" /\ Stored(m.key) = {}) =>
                    out'[1].type = "FoundNode" /\ ClosestOfTable(out'[1].nodes, m.key)
          ELSE out' = <<>>
    ]_vars

\* a FindValue has been answered with a FoundValue that holds a value of the
\* external store next to the values of the internal store
C16_Witness ==
  /\ Len(out) = 1
  /\ out[1].type = "FoundValue"
  /\ out[1].cookie = "c2"
  /\ \E v \in SeqToSet(out[1].values) :
       <<1, v>> \in external_values /\ <<1, v>> \notin internal_values
  /\ \E v \in SeqToSet(out[1].values) : <<1, v>> \in internal_values

\* a reply that counts towards the early termination of a value lookup
ValueBearing(r) == r.type = "FoundValue" /\ Len(r.values) > 0

\* C17: a value lookup starts with K_PARAM value-bearing replies to go; only
\* a FoundValue with at least one value counts, each reply comes from a peer
\* that was queried once, and the lookup returns from its loop exactly at
\* the reply that brings the count to K_PARAM; otherwise it returns when no
\* request is in flight and no candidate is left, Ok(values) if a value was
\* collected and Err(frontier) if none
C17_EarlyTermination ==
  [][ \A t \in Finders :
        LET l == lk[t] IN
        /\ (l.st = "off" /\ lk'[t].st = "run") => lk'[t].value_nodes = K_PARAM
        /\ (l.st = "run" /\ l.job = "Value") =>
             /\ \A id \in IDs, r \in LookupReplies :
                  LkReply(t, id, r) =>
                    /\ lk'[t].value_nodes =
                         l.value_nodes - (IF ValueBearing(r) THEN 1 ELSE 0)
                    /\ (lk'[t].st = "ret") <=> (ValueBearing(r) /\ l.value_nodes = 1)
                    /\ id \in l.visited
                    /\ id \notin lk'[t].inflight
             /\ (lk'[t].st = "run" /\ lk'[t].inflight # l.inflight) =>
                  \/ lk'[t].inflight \subseteq l.inflight
                  \/ /\ l.inflight \subseteq lk'[t].inflight
                     /\ (lk'[t].inflight \ l.inflight) \cap l.visited = {}
             /\ (t = "main" /\ main.pc = "get_lookup" /\ main'.pc = "idle") =>
                  /\ l.st = "ret" \/ (l.inflight = {} /\ NextCand(l) = 0)
                  /\ l.st = "ret" => l.value_nodes = 0 /\ l.values # <<>>
                  /\ FindResult(l).ok <=> l.values # <<>>
                  /\ ret'.values = l.values
    ]_vars

\* a value lookup has returned from its loop at the K_PARAM-th value-bearing
\* reply while another request was still in flight
C17_Witness ==
  /\ lk["main"].job = "Value"
  /\ lk["main"].st = "ret"
  /\ lk["main"].inflight # {}
  /\ main.pc = "get_lookup"

\* C18: a lookup never sends a request to a peer it has already queried, and
\* with every request resolving, a call of get (of find) eventually returns
C18_LookupTermination ==
  /\ [][ \A t \in Finders :
           (lk[t].st = "run" /\ lk'[t].st = "run") =>
             /\ (lk'[t].inflight \ lk[t].inflight) \cap lk[t].visited = {}
             /\ lk[t].visited \subseteq lk'[t].visited
             /\ lk'[t].inflight \subseteq lk'[t].visited
       ]_vars
  /\ (main.pc = "get_lookup") ~> (main.pc = "idle" /\ ret.op = "get")

\* a lookup has ended by exhaustion after it queried the two peers of the
\* table and the two peers it learnt of, with nothing in flight
C18_Witness ==
  /\ main.pc = "get_lookup"
  /\ lk["main"].st = "run"
  /\ Exhausted(lk["main"])
  /\ Cardinality(lk["main"].visited) = 4

----------------------------------------------------------------------------
(* Store-tier properties *)

\* some handle_message task takes a step
Handles == handler' # handler

\* C19: a step of a message handler leaves the internal store alone, and the
\* Store of an accepted sender adds its binding to the external store only;
\* put, remove and remove_key leave the external store alone; the internal
\* store changes only by a put adding its binding or by a remove or
\* remove_key taking bindings away
C19_StoreTiers ==
  [][ /\ Handles => UNCHANGED internal_values
      /\ \A h \in Handlers :
           (Dispatches(h) /\ handler[h].msg.type = "Store"
              /\ handler[h].msg.value.len <= MAX_VALUE_LEN) =>
             /\ external_values' =
                  external_values \cup {<<handler[h].msg.key, handler[h].msg.value>>}
             /\ UNCHANGED <<own_id, kbuckets, lk, main, rep, ret>>
      /\ \A k \in Keys, v \in Values :
           (Put(k, v) \/ Remove(k, v) \/ RemoveKey(k)) => UNCHANGED external_values
      /\ internal_values' # internal_values =>
           /\ UNCHANGED <<external_values, handler, kbuckets>>
           /\ \/ /\ main.pc = "idle" /\ main'.pc = "put_lookup"
                 /\ internal_values' = internal_values \cup {<<main'.key, main'.value>>}
              \/ /\ internal_values' \subseteq internal_values
                 /\ UNCHANGED <<main, lk, rep>>
      /\ external_values' # external_values =>
           /\ UNCHANGED internal_values
           /\ Handles \/ external_values' \subseteq external_values
    ]_vars

\* a put and an inbound Store have filled the two stores with different
\* bindings, and a remove has emptied the internal store again while the
\* external store kept its binding
C19_Witness ==
  /\ internal_values = {}
  /\ external_values = {<<1, ValueOrder[1]>>}
  /\ \E r \in Republishers : Alive(r, 1, ValueOrder[1])
  /\ handler["h1"].result = "ok"

\* two value lookups of one key have returned after they queried the same
\* peers and got the same FoundValue list from each of them
SameReplies(l, m) ==
  /\ l.job = "Value" /\ m.job = "Value"
  /\ l.st # "off" /\ m.st # "off"
  /\ FindReturned(l) /\ FindReturned(m)
  /\ l.key = m.key
  /\ l.visited = m.visited
  /\ l.got = m.got

\* C20 (as claimed): two value lookups that got the same replies from the
\* same peers return the same value list, in whatever order the replies
\* arrived
C20_OrderInsensitive ==
  \A t \in Finders, u \in Finders :
    SameReplies(lk[t], lk[u]) => FindResult(lk[t]) = FindResult(lk[u])

====
